---- MODULE Spec2Model ----
(***************************************************************************)
(* ConsultEase faculty unit (ESP32): BLE presence detection, change-driven *)
(* presence publishing over MQTT and inbound request dispatch.             *)
(*                                                                         *)
(* The firmware counts time with millis(), a 32-bit unsigned millisecond   *)
(* counter.  A 32-bit value is kept here as the pair <<hi, lo>> of its two *)
(* 16-bit halves, so that every sum, difference and comparison is computed *)
(* with exactly the width the firmware computes it with.                   *)
(***************************************************************************)
EXTENDS Integers, Sequences, FiniteSets, TLC

(* ------------------------------------------------------------------ *)
(* unsigned long (32 bit) arithmetic                                    *)
(* ------------------------------------------------------------------ *)
Half == 256 * 256

\* the 32-bit value of a small non-negative integer literal
U32(n) == <<(n \div Half) % Half, n % Half>>

\* 0xFFFFFFFF
MAX_U32 == <<Half - 1, Half - 1>>

ZERO32 == <<0, 0>>

\* a + b modulo 2^32
Add32(a, b) ==
    LET lo == a[2] + b[2]
        hi == a[1] + b[1] + (lo \div Half)
    IN  <<hi % Half, lo % Half>>

\* 1 when a + b does not fit 32 bits, else 0
Carry32(a, b) ==
    LET lo == a[2] + b[2]
        hi == a[1] + b[1] + (lo \div Half)
    IN  hi \div Half

\* a - b modulo 2^32
Sub32(a, b) ==
    LET lo     == a[2] - b[2]
        borrow == IF lo < 0 THEN 1 ELSE 0
        hi     == a[1] - b[1] - borrow
    IN  <<(hi + Half) % Half, (lo + Half) % Half>>

Lt32(a, b) == a[1] < b[1] \/ (a[1] = b[1] /\ a[2] < b[2])

Gt32(a, b) == Lt32(b, a)

Ge32(a, b) == ~Lt32(a, b)

(* ------------------------------------------------------------------ *)
(* configuration                                                       *)
(* ------------------------------------------------------------------ *)
PRESENCE_TIMEOUT_MS == 15000

BLE_SCAN_DURATION == 5

MQTT_RECONNECT_DELAY == 5000

BLE_SCAN_INTERVAL_MS == (BLE_SCAN_DURATION * 1000) + 1000

LOOP_DELAY_MS == 100

DEBOUNCE_MS == 50

TARGET_BLE_ADDRESS == "AA:BB:CC:DD:EE:FF"

OTHER_BLE_ADDRESS == "11:22:33:44:55:66"

FACULTY_ID == "prof_smith"

faculty_id == "faculty1"

MQTT_REQUEST_TOPIC == "consultease/requests/new"

\* snprintf(buf, sizeof buf, MQTT_STATUS_TOPIC_TEMPLATE, id)
MQTT_STATUS_TOPIC(id) == "consultease/faculty/" \o id \o "/status"

COMMAND_TOPIC == "consultease/faculty/prof_smith/commands"

(* ------------------------------------------------------------------ *)
(* BLEScanner::is_present                                               *)
(* ------------------------------------------------------------------ *)
\* the slip of subtracting the operands of the rollover branch the wrong way
is_present_swapped(last_seen, current_time) ==
    IF Gt32(last_seen, current_time)
    THEN Lt32(Sub32(last_seen, current_time), U32(PRESENCE_TIMEOUT_MS))
    ELSE Lt32(Sub32(current_time, last_seen), U32(PRESENCE_TIMEOUT_MS))

\* the slip of exchanging the two timestamps in the sum
RolloverSum_swapped(last_seen, current_time) ==
    [sum   |-> Add32(Sub32(MAX_U32, current_time), last_seen),
     carry |-> Carry32(Sub32(MAX_U32, current_time), last_seen)]

\* (0xFFFFFFFF - last_seen_ms) + current_time: the 32 bits the unit computes
\* and the bit that does not fit
RolloverSum(last_seen, current_time) ==
    [sum   |-> Add32(Sub32(MAX_U32, last_seen), current_time),
     carry |-> Carry32(Sub32(MAX_U32, last_seen), current_time)]

is_present(last_seen, current_time) ==
    LET present == Lt32(Sub32(current_time, last_seen), U32(PRESENCE_TIMEOUT_MS))
    IN  IF Gt32(last_seen, current_time)
        THEN Lt32(RolloverSum(last_seen, current_time).sum,
                  U32(PRESENCE_TIMEOUT_MS))
        ELSE present

(* ------------------------------------------------------------------ *)
(* bounds of the exploration                                           *)
(* ------------------------------------------------------------------ *)
\* loop() iterations explored
MaxIter == 3

\* loop() iterations explored when messages arrive
MaxRequestIter == 1

\* wraps of the millis() counter explored
MaxWraps == 1

\* failed connection attempts explored in reconnect_mqtt, over the run
MaxFails == 1

\* loop() iterations explored when the manual status is driven
MaxStatusIter == 1

\* dropped records counted
MaxUnsent == 3

\* status records of one unit that reach the central system
MaxRecords == 2

\* time setup() took (setup_wifi blocks until the network is joined)
SetupTimes == {U32(1000), U32(20000)}

\* how long a pressed button stays down after the debounce (steps of delay(10))
HoldTimes == {U32(16000), <<Half - 1, 43240>>}

\* what a scan reports: the advertised addresses, in order
ScanResults == {<<>>, <<OTHER_BLE_ADDRESS>>, <<TARGET_BLE_ADDRESS>>,
                <<OTHER_BLE_ADDRESS, TARGET_BLE_ADDRESS>>}

(* ------------------------------------------------------------------ *)
(* JSON payloads (ArduinoJson)                                         *)
(* ------------------------------------------------------------------ *)
JAbsent == [t |-> "absent", s |-> ""]

JNumber == [t |-> "number", s |-> "42"]

JStr(s) == [t |-> "string", s |-> s]

\* the values a field of an inbound document takes in the exploration
IdValues == {JAbsent, JNumber, JStr(""), JStr("s1")}

TextValues == {JAbsent, JNumber, JStr(""), JStr("need help")}

\* raw payloads: bytes that are not JSON, or a JSON object with these members
NotJson ==
    [valid |-> FALSE, student_id |-> JAbsent, request_text |-> JAbsent,
     text |-> JAbsent, command |-> JAbsent, status |-> JAbsent,
     faculty_id |-> JAbsent]

RequestObject(sid, rtext, txt) ==
    [valid |-> TRUE, student_id |-> sid, request_text |-> rtext,
     text |-> txt, command |-> JAbsent, status |-> JAbsent,
     faculty_id |-> JAbsent]

\* the request the central system sends for the faculty member fid:
\* {"student_id": ..., "faculty_id": ..., "request_text": ..., "timestamp": ...}
AddressedRequest(fid, sid, rtext) ==
    [valid |-> TRUE, student_id |-> sid, request_text |-> rtext,
     text |-> JAbsent, command |-> JAbsent, status |-> JAbsent,
     faculty_id |-> fid]

CommandObject(cmd, st) ==
    [valid |-> TRUE, student_id |-> JAbsent, request_text |-> JAbsent,
     text |-> JAbsent, command |-> cmd, status |-> st,
     faculty_id |-> JAbsent]

RequestPayloads ==
    {NotJson}
      \cup {RequestObject(sid, rt, JAbsent) : sid \in IdValues, rt \in TextValues}
      \cup {RequestObject(JStr("s1"), JAbsent, JStr("need help"))}

CommandPayloads ==
    {NotJson, CommandObject(JStr("status_update"), JAbsent),
     CommandObject(JStr("display_update"), JAbsent),
     CommandObject(JStr("reboot"), JAbsent),
     CommandObject(JStr("set_status"), JAbsent),
     CommandObject(JStr("set_status"), JStr("busy")),
     CommandObject(JStr("set_status"), JStr("away"))}

Messages ==
    {[topic |-> MQTT_REQUEST_TOPIC, payload |-> p] : p \in RequestPayloads}
      \cup {[topic |-> COMMAND_TOPIC, payload |-> p] : p \in CommandPayloads}

NoMessage == [topic |-> "", payload |-> NotJson]

\* deserializeJson: the error flag
DeserializationError(payload) == ~payload.valid

\* the slip of reading the member as<String>(): never null
AsCStr_serialized(v) ==
    [null |-> FALSE, s |-> IF v.t = "absent" THEN "null" ELSE v.s]

\* JsonVariant -> const char*: a pointer to the text of a string, else null
AsCStr(v) ==
    IF v.t = "string" THEN [null |-> FALSE, s |-> v.s]
                      ELSE [null |-> TRUE, s |-> ""]

\* JsonVariant::as<String>(): the text of a string, else the serialized value
AsString(v) ==
    IF v.t = "absent" THEN "null" ELSE v.s

(* ------------------------------------------------------------------ *)
(* what the broker retains                                              *)
(* ------------------------------------------------------------------ *)
NoPayload == [kind |-> "none", status |-> "", timestamp |-> ZERO32]

\* the presence payload: the bare text "Present" or "Unavailable"
PresencePayload(s) == [kind |-> "text", status |-> s, timestamp |-> ZERO32]

\* serializeJson of {"status":..., "name":..., "department":..., "timestamp":...}
StatusJson(s, ts) == [kind |-> "json", status |-> s, timestamp |-> ts]

PresenceTopic == MQTT_STATUS_TOPIC(FACULTY_ID)

ManualTopic == MQTT_STATUS_TOPIC(faculty_id)

Topics == {PresenceTopic, ManualTopic}

\* String path = "faculty/" + String(faculty_id) + "/status"
RtdbPath(id) == "faculty/" \o id \o "/status"

\* what publish_message hands back to its caller, the client being connected
\* or not and client.publish having accepted the message or not: the function
\* is declared void
PublishResult(isConnected, accepted) == "void"

\* the records the unit holds for a later attempt: publish_message writes a
\* line to the serial log and returns, the unit has no queue
retry_queue == <<>>

(* ------------------------------------------------------------------ *)
(* state                                                                *)
(* ------------------------------------------------------------------ *)
VARIABLES
    pc,                     \* position of the main task
    iter,                   \* loop() iterations completed
    wraps,                  \* times millis() has wrapped since boot
    millis,                 \* the millis() counter
    fails,                  \* failed connection attempts so far
    connected,              \* client.connected()
    subscribed,             \* the broker holds the unit's request subscription
    retained,               \* the broker's retained payload of each topic
    inbound,                \* the message client.loop() is handing to the callback
    pBLEScan,               \* "valid" or "null"
    last_seen_ms,
    lastBleScanTime,
    last_published_status,
    currentStatus,
    leds,                   \* the set of lit status LEDs
    firebaseConnected,
    rtdb,                   \* the backend's value at faculty/<id>/status
    status_text,            \* the status area of the display
    request_area,           \* the request area of the display
    \* history of the run, read by the properties only
    sighting,               \* the latest scan that found the target, and when
    scanRet,                \* what the latest scan() returned
    present,                \* what the latest is_present() returned (FALSE before any)
    pubHist,                \* payloads of the last two presence publish calls
    absentPubs,             \* not-present payloads accepted since the sighting
    linkUp,                 \* connected ever since the latest sighting
    cb,                     \* show_request calls made by the latest callback
    lastPub,                \* the latest call of publish_message and its outcome
    unsent,                 \* the latest publish_message calls, all made disconnected
    circuit,                \* failures of the latest network calls, and when
    audit,                  \* the three above are kept in this run
    \* the identifiers a unit is built with and the status topics built from them
    unit_ids,
    built_topics,
    delivery,               \* the request on display: when it was presented
    \* the central system's view of the units
    store,                  \* the record kept for each unit
    queue,                  \* records that arrived and wait for the unit's writer
    worker,                 \* the unit of work handling a record of each unit
    arrived                 \* the records of each unit in the order of arrival

netVars == <<fails, connected, subscribed, retained, inbound>>
bleVars == <<pBLEScan, last_seen_ms, lastBleScanTime>>
statVars == <<currentStatus, leds, firebaseConnected, rtdb>>
dispVars == <<status_text, request_area>>
histVars == <<sighting, scanRet, present, pubHist, absentPubs, linkUp, cb>>
logVars == <<lastPub, unsent, circuit>>
cfgVars == <<audit, unit_ids, built_topics>>
aggVars == <<store, queue, worker, arrived>>

\* the state of the faculty unit
unitVars == <<pc, iter, wraps, millis, netVars, bleVars, last_published_status,
              statVars, dispVars, histVars, logVars, cfgVars, delivery>>

vars == <<pc, iter, wraps, millis, netVars, bleVars, last_published_status,
          statVars, dispVars, histVars, logVars, cfgVars, delivery, aggVars>>

NoRequest == [shown |-> FALSE, student_id |-> "", request_text |-> ""]

NoCall == [calls |-> 0, student_id |-> "", request_text |-> ""]

NoSighting == [seen |-> FALSE, wraps |-> 0, ms |-> ZERO32]

NoDelivery == [state |-> "none", w |-> 0, ms |-> ZERO32]

\* a status record as the central system receives it
NoRecord == [unit_id |-> "", presence |-> "", updated_at |-> 0]

\* the identifier of another faculty member's unit
OTHER_FACULTY_ID == "prof_jones"

AggUnits == {FACULTY_ID, OTHER_FACULTY_ID}

Idle == [pc |-> "idle", rec |-> NoRecord]

\* the central system before any record has arrived
AggregatorStart ==
    /\ store = [u \in AggUnits |-> NoRecord]
    /\ queue = [u \in AggUnits |-> <<>>]
    /\ worker = [u \in AggUnits |-> Idle]
    /\ arrived = [u \in AggUnits |-> <<>>]

\* time passes: d milliseconds
TimePasses(d) ==
    /\ wraps + Carry32(millis, d) <= MaxWraps
    /\ millis' = Add32(millis, d)
    /\ wraps' = wraps + Carry32(millis, d)

\* the wraps of the counter when millis() reads now, now being this step's
\* millis() or a later reading within the step
WrapsAt(now) == wraps + (IF Lt32(now, millis) THEN 1 ELSE 0)

\* less than d milliseconds of real time lie between the reading m0 (after
\* w0 wraps) and the later reading m1 (after w1 wraps)
Within(w0, m0, w1, m1, d) ==
    LET borrow == IF Lt32(m1, m0) THEN 1 ELSE 0
    IN  /\ w1 - w0 - borrow = 0
        /\ Lt32(Sub32(m1, m0), U32(d))

\* n is the parity of the number of calls made so far
NoPublish ==
    [n |-> 0, topic |-> "", retain |-> FALSE, sent |-> FALSE, ret |-> "none"]

\* one more, counted up to MaxUnsent
OneMore(count) == IF count < MaxUnsent THEN count + 1 ELSE count

(* ------------------------------------------------------------------ *)
(* failure accounting of the network calls                              *)
(* ------------------------------------------------------------------ *)
\* "after multiple failures, requests are rejected": the least such number
failure_threshold == 2

\* the pause the unit's own retry makes after a failed connection attempt
cooldown_period == MQTT_RECONNECT_DELAY

NoFailures == [failure_count |-> 0, w |-> 0, ms |-> ZERO32, while_open |-> FALSE]

\* failure_threshold network calls in a row have failed, the latest of them
\* less than cooldown_period before the reading now
CircuitOpen(now) ==
    /\ circuit.failure_count >= failure_threshold
    /\ Within(circuit.w, circuit.ms, WrapsAt(now), now, cooldown_period)

\* a call that goes to the network (client.connect, client.publish) at the
\* reading now, and whether it succeeded; the time of a failure is kept once
\* failure_threshold failures have come in a row
NetworkCall(ok, now) ==
    LET count == IF ok THEN 0
                 ELSE IF circuit.failure_count < failure_threshold
                 THEN circuit.failure_count + 1
                 ELSE circuit.failure_count
    IN  circuit' =
            IF audit
            THEN [failure_count |-> count,
                  w  |-> IF count >= failure_threshold THEN WrapsAt(now) ELSE 0,
                  ms |-> IF count >= failure_threshold THEN now ELSE ZERO32,
                  while_open |-> CircuitOpen(now)]
            ELSE circuit

(* ------------------------------------------------------------------ *)
(* the state after setup()                                              *)
(* ------------------------------------------------------------------ *)
StatusNames == {"available", "busy", "away"}

\* the slip of wiring the busy and the away LED the other way round
LedsFor_crossed(status) ==
    {l \in StatusNames : \/ (l = "available" /\ status = "available")
                         \/ (l = "busy" /\ status = "away")
                         \/ (l = "away" /\ status = "busy")}

\* digitalWrite of the three status LEDs in updateStatus
LedsFor(status) == {l \in StatusNames : l = status}

\* setup() took setupTime; ble is what BLEDevice::getScan() returned in
\* setup_ble and ready what Firebase.ready() returned in setupFirebase
Setup(setupTime, ble, ready) ==
    /\ pc = "mqtt"
    /\ iter = 0
    /\ wraps = 0
    /\ millis = setupTime
    /\ fails = 0
    /\ connected = FALSE
    /\ subscribed = FALSE
    /\ retained = [t \in Topics |-> NoPayload]
    /\ inbound = NoMessage
    /\ pBLEScan = ble
    /\ last_seen_ms = ZERO32
    /\ lastBleScanTime = ZERO32
    /\ last_published_status = "Unknown"
    /\ currentStatus = "available"
    /\ leds = LedsFor("available")
    /\ firebaseConnected = ready
    /\ rtdb = IF firebaseConnected THEN "available" ELSE "unset"
    /\ status_text = ""
    /\ request_area = NoRequest
    /\ sighting = NoSighting
    /\ scanRet = "none"
    /\ present = FALSE
    /\ pubHist = <<"none", "none">>
    /\ absentPubs = 0
    /\ linkUp = FALSE
    /\ cb = NoCall
    \* updateStatus("available") at the end of setup() calls publishStatus
    \* before the client has ever connected
    /\ lastPub = [n |-> 1, topic |-> ManualTopic, retain |-> TRUE,
                  sent |-> FALSE, ret |-> PublishResult(FALSE, FALSE)]
    /\ unsent = 1
    /\ circuit = NoFailures
    /\ unit_ids = [FACULTY_ID |-> FACULTY_ID, faculty_id |-> faculty_id]
    /\ built_topics = [topic_buffer |-> "", statusTopic |-> ManualTopic]
    /\ delivery = NoDelivery
    /\ AggregatorStart

Init ==
    /\ audit = FALSE
    /\ \E setupTime \in SetupTimes, ble \in {"valid", "null"} :
          Setup(setupTime, ble, FALSE)

\* the unit is switched off and on again: setup() runs anew and millis()
\* counts from zero, while the broker keeps what it has retained
Restart(setupTime, ready) ==
    /\ pc' = "mqtt"
    /\ wraps' = 0
    /\ millis' = setupTime
    /\ fails' = 0
    /\ connected' = FALSE
    /\ subscribed' = FALSE
    /\ inbound' = NoMessage
    /\ pBLEScan' = "valid"
    /\ last_seen_ms' = ZERO32
    /\ lastBleScanTime' = ZERO32
    /\ last_published_status' = "Unknown"
    /\ currentStatus' = "available"
    /\ leds' = LedsFor("available")
    /\ firebaseConnected' = ready
    /\ rtdb' = IF firebaseConnected' THEN "available" ELSE "unset"
    /\ status_text' = ""
    /\ request_area' = NoRequest
    /\ sighting' = NoSighting
    /\ scanRet' = "none"
    /\ present' = FALSE
    /\ pubHist' = <<"none", "none">>
    /\ absentPubs' = 0
    /\ linkUp' = FALSE
    /\ cb' = NoCall
    \* updateStatus("available") at the end of setup() calls publishStatus
    \* before the client has ever connected
    /\ lastPub' = [n |-> 1, topic |-> ManualTopic, retain |-> TRUE,
                  sent |-> FALSE, ret |-> PublishResult(FALSE, FALSE)]
    /\ unsent' = 1
    /\ circuit' = NoFailures
    /\ unit_ids' = [FACULTY_ID |-> FACULTY_ID, faculty_id |-> faculty_id]
    /\ built_topics' = [topic_buffer |-> "", statusTopic |-> ManualTopic]
    /\ delivery' = NoDelivery
    /\ UNCHANGED <<iter, retained, audit, aggVars>>

(* ------------------------------------------------------------------ *)
(* mqtt_handler: publish_message, reconnect_mqtt, mqtt_handler_loop     *)
(* ------------------------------------------------------------------ *)
\* accepted says what client.publish returns when the client is connected
Delivered(accepted) == connected /\ accepted

\* publish_message(topic, payload, retain); now is what millis() reads at the
\* call.  The broker keeps a delivered message as the topic's retained value
\* only when the retain flag is set.
publish_message(topic, payload, retain, accepted, now) ==
    /\ retained' = IF Delivered(accepted) /\ retain
                    THEN [retained EXCEPT ![topic] = payload]
                    ELSE retained
    /\ IF audit
       THEN /\ lastPub' = [n |-> 1 - lastPub.n, topic |-> topic,
                           retain |-> retain,
                           sent |-> Delivered(accepted),
                           ret |-> PublishResult(connected, accepted)]
            /\ unsent' = IF connected THEN 0 ELSE OneMore(unsent)
       ELSE UNCHANGED <<lastPub, unsent>>
    /\ IF connected THEN NetworkCall(accepted, now) ELSE UNCHANGED circuit

\* one pass of the while loop of reconnect_mqtt
ReconnectAttempt(connectOk, subscribeOk) ==
    /\ pc = "mqtt"
    /\ ~connected
    /\ IF connectOk
       THEN /\ connected' = TRUE
            /\ subscribed' = subscribeOk
            /\ pc' = "clientloop"
            /\ UNCHANGED <<wraps, millis, fails>>
       ELSE /\ fails < MaxFails
            /\ fails' = fails + 1
            /\ TimePasses(U32(MQTT_RECONNECT_DELAY))
            /\ UNCHANGED <<connected, subscribed, pc>>
    /\ NetworkCall(connectOk, millis)
    /\ UNCHANGED <<iter, retained, inbound, bleVars, last_published_status,
                   statVars, dispVars, histVars, lastPub, unsent, cfgVars,
                   delivery, aggVars>>

\* client.loop(): hands at most one inbound message to the callback
ClientLoop(m) ==
    /\ pc = "clientloop" \/ (pc = "mqtt" /\ connected)
    /\ IF connected /\ m # NoMessage
       THEN inbound' = m /\ pc' = "callback"
       ELSE inbound' = NoMessage /\ pc' = "buttons"
    /\ UNCHANGED <<iter, wraps, millis, fails, connected, subscribed, retained,
                   bleVars, last_published_status, statVars, dispVars, histVars,
                   logVars, cfgVars,
                   delivery, aggVars>>

\* the network drops the connection
ConnectionLost ==
    /\ connected
    /\ pc \notin {"panic", "held"}
    /\ connected' = FALSE
    /\ subscribed' = FALSE
    /\ linkUp' = FALSE
    /\ UNCHANGED <<pc, iter, wraps, millis, fails, retained, inbound, bleVars,
                   last_published_status, statVars, dispVars,
                   sighting, scanRet, present, pubHist, absentPubs, cb,
                   logVars, cfgVars,
                   delivery, aggVars>>

(* ------------------------------------------------------------------ *)
(* manual status: publishStatus, updateStatus, checkButtons             *)
(* ------------------------------------------------------------------ *)
publishStatus(status, ts, accepted) ==
    publish_message(ManualTopic, StatusJson(status, ts), TRUE, accepted, ts)

\* the slip of leaving out the early return on an unchanged status
updateStatus_always(newStatus, ts, accepted) ==
    /\ currentStatus' = newStatus
    /\ leds' = LedsFor(newStatus)
    /\ publishStatus(newStatus, ts, accepted)
    /\ rtdb' = IF firebaseConnected THEN newStatus ELSE rtdb

updateStatus(newStatus, ts, accepted) ==
    IF newStatus = currentStatus
    THEN UNCHANGED <<currentStatus, leds, rtdb, retained, logVars>>
    ELSE /\ currentStatus' = newStatus
         /\ leds' = LedsFor(newStatus)
         /\ publishStatus(newStatus, ts, accepted)
         /\ rtdb' = IF firebaseConnected THEN newStatus ELSE rtdb

\* button is the button that reads LOW ("none": all read HIGH); stable says
\* it still reads LOW after the debounce; hold is the wait for its release
checkButtons(button, stable, hold, accepted) ==
    /\ pc = "buttons"
    /\ pc' = "scan"
    /\ IF button = "none"
       THEN UNCHANGED <<wraps, millis, currentStatus, leds, rtdb, retained,
                        logVars>>
       ELSE IF ~stable
       THEN /\ TimePasses(U32(DEBOUNCE_MS))
            /\ UNCHANGED <<currentStatus, leds, rtdb, retained, logVars>>
       ELSE /\ TimePasses(Add32(U32(DEBOUNCE_MS), hold))
            /\ updateStatus(button, Add32(millis, U32(DEBOUNCE_MS)), accepted)
    /\ UNCHANGED <<iter, fails, connected, subscribed, inbound, bleVars,
                   last_published_status, firebaseConnected, dispVars, histVars,
                   cfgVars,
                   delivery, aggVars>>

\* checkButtons with a button that reads LOW and is not released: after the
\* debounce and updateStatus the call stays in
\* while (digitalRead(button) == LOW) delay(10)
checkButtonsHeld(button, accepted) ==
    /\ pc = "buttons"
    /\ pc' = "held"
    /\ TimePasses(U32(DEBOUNCE_MS))
    /\ updateStatus(button, Add32(millis, U32(DEBOUNCE_MS)), accepted)
    /\ UNCHANGED <<iter, fails, connected, subscribed, inbound, bleVars,
                   last_published_status, firebaseConnected, dispVars, histVars,
                   cfgVars,
                   delivery, aggVars>>

(* ------------------------------------------------------------------ *)
(* inbound messages: internalMqttCallback, mqtt_message_callback        *)
(* ------------------------------------------------------------------ *)
\* const char* student_id = doc["student_id"]
StudentIdOf(doc) == AsCStr(doc.student_id)

\* the slip of reading the member "text" instead
RequestTextOf_text(doc) == AsCStr(doc.text)

\* const char* request_text = doc["request_text"]
RequestTextOf(doc) == AsCStr(doc.request_text)

\* DisplayManager::show_request: the request area after the call
show_request(student_id, request_text) ==
    IF student_id.null \/ request_text.null
    THEN request_area
    ELSE [shown |-> TRUE, student_id |-> student_id.s,
          request_text |-> request_text.s]

\* the user callback, reached for every topic but the request topic
mqtt_message_callback(payload, accepted) ==
    IF DeserializationError(payload)
    THEN UNCHANGED <<currentStatus, leds, rtdb, retained, logVars>>
    ELSE LET command == AsString(payload.command)
         IN  IF command = "status_update"
             THEN /\ publishStatus(currentStatus, millis, accepted)
                  /\ UNCHANGED <<currentStatus, leds, rtdb>>
             ELSE IF command = "display_update"
             THEN UNCHANGED <<currentStatus, leds, rtdb, retained, logVars>>
             ELSE IF command = "set_status"
             THEN updateStatus(AsString(payload.status), millis, accepted)
             ELSE UNCHANGED <<currentStatus, leds, rtdb, retained, logVars>>

\* the slip of leaving out the "== 0" of the comparison
IsRequestTopic_nonzero(topic) == topic # MQTT_REQUEST_TOPIC

\* strcmp(topic, MQTT_REQUEST_TOPIC) == 0
IsRequestTopic(topic) == topic = MQTT_REQUEST_TOPIC

internalMqttCallback(accepted) ==
    /\ pc = "callback"
    /\ pc' = "buttons"
    /\ inbound' = NoMessage
    /\ IF IsRequestTopic(inbound.topic)
       THEN /\ UNCHANGED <<currentStatus, leds, rtdb, retained, logVars>>
            /\ IF DeserializationError(inbound.payload)
               THEN UNCHANGED request_area /\ cb' = NoCall
               ELSE LET student_id   == StudentIdOf(inbound.payload)
                        request_text == RequestTextOf(inbound.payload)
                    IN  IF student_id.null \/ request_text.null
                        THEN UNCHANGED request_area /\ cb' = NoCall
                        ELSE /\ request_area' = show_request(student_id, request_text)
                             /\ cb' = [calls |-> 1, student_id |-> student_id.s,
                                       request_text |-> request_text.s]
       ELSE /\ mqtt_message_callback(inbound.payload, accepted)
            /\ UNCHANGED request_area
            /\ cb' = NoCall
    /\ delivery' = IF audit /\ cb'.calls > 0
                    THEN [state |-> "Delivered", w |-> wraps, ms |-> millis]
                    ELSE delivery
    /\ UNCHANGED <<iter, wraps, millis, fails, connected, subscribed, bleVars,
                   last_published_status, firebaseConnected, status_text,
                   sighting, scanRet, present, pubHist, absentPubs, linkUp,
                   cfgVars,
                   aggVars>>

(* ------------------------------------------------------------------ *)
(* BLEScanner::scan and the scan step of loop()                         *)
(* ------------------------------------------------------------------ *)
\* the search of the scan results for targetAddress; the value scan() returns
FoundTarget(devices) ==
    \E i \in 1 .. Len(devices) : devices[i] = TARGET_BLE_ADDRESS

\* the slip of not recording the time of a sighting
scan_stale(devices, last_seen, t) == last_seen

\* the slip of clearing the timestamp when the target is not found
scan_reset(devices, last_seen, t) ==
    IF FoundTarget(devices) THEN t ELSE ZERO32

\* last_seen_ms after scan(), t being millis() at the end of the scan
scan(devices, last_seen, t) ==
    IF FoundTarget(devices) THEN t ELSE last_seen

\* currentMillis - lastBleScanTime >= BLE_SCAN_INTERVAL_MS || lastBleScanTime == 0
ScanDue(currentMillis, lastScan) ==
    \/ Ge32(Sub32(currentMillis, lastScan), U32(BLE_SCAN_INTERVAL_MS))
    \/ lastScan = ZERO32

\* devices is what the radio reports.  With pBLEScan null the call
\* pBLEScan->start dereferences a null pointer: the core either faults
\* (fault) or the call goes on with whatever it reads.
loop_scan(devices, fault) ==
    /\ pc = "scan"
    /\ IF ~ScanDue(millis, lastBleScanTime)
       THEN /\ pc' = "presence"
            /\ scanRet' = "none"
            /\ UNCHANGED <<wraps, millis, last_seen_ms, lastBleScanTime,
                           sighting, absentPubs, linkUp>>
       ELSE IF pBLEScan = "null" /\ fault
       THEN /\ pc' = "panic"
            /\ UNCHANGED <<wraps, millis, last_seen_ms, lastBleScanTime,
                           sighting, scanRet, absentPubs, linkUp>>
       ELSE /\ pc' = "presence"
            /\ TimePasses(U32(BLE_SCAN_DURATION * 1000))
            /\ last_seen_ms' = scan(devices, last_seen_ms, millis')
            /\ lastBleScanTime' = millis
            /\ scanRet' = IF FoundTarget(devices) THEN "found" ELSE "not found"
            /\ IF FoundTarget(devices)
               THEN /\ sighting' = [seen |-> TRUE, wraps |-> wraps', ms |-> millis']
                    /\ absentPubs' = 0
                    /\ linkUp' = connected
               ELSE UNCHANGED <<sighting, absentPubs, linkUp>>
    /\ UNCHANGED <<iter, netVars, pBLEScan, last_published_status, statVars,
                   dispVars, present, pubHist, cb, logVars, cfgVars,
                   delivery, aggVars>>

(* ------------------------------------------------------------------ *)
(* the presence step of loop()                                          *)
(* ------------------------------------------------------------------ *)
\* the slip of sending the not-present value under another name
StatusString_absent(p) == IF p THEN "Present" ELSE "Absent"

\* String current_status_string = present ? "Present" : "Unavailable"
StatusString(p) == IF p THEN "Present" ELSE "Unavailable"

\* the slip of publishing on every iteration
StatusChanged_always(current_status_string, last_published) == TRUE

\* if (current_status_string != last_published_status)
StatusChanged(current_status_string, last_published) ==
    current_status_string # last_published

loop_presence(accepted) ==
    /\ pc = "presence"
    /\ pc' = "delay"
    /\ LET p == is_present(last_seen_ms, millis)
           current_status_string == StatusString(p)
       IN  /\ present' = p
           /\ status_text' = current_status_string
           /\ IF StatusChanged(current_status_string, last_published_status)
              THEN /\ built_topics' =
                        [built_topics EXCEPT !.topic_buffer = PresenceTopic]
                   /\ publish_message(PresenceTopic,
                                      PresencePayload(current_status_string),
                                      TRUE, accepted, millis)
                   /\ last_published_status' = current_status_string
                   /\ pubHist' = <<pubHist[2], current_status_string>>
                   /\ absentPubs' =
                        IF ~p /\ Delivered(accepted) /\ absentPubs < 2
                        THEN absentPubs + 1 ELSE absentPubs
              ELSE UNCHANGED <<retained, last_published_status, pubHist,
                               absentPubs, logVars, built_topics>>
    /\ UNCHANGED <<iter, wraps, millis, fails, connected, subscribed, inbound,
                   bleVars, statVars, request_area, sighting, scanRet, linkUp, cb,
                   audit, unit_ids,
                   delivery, aggVars>>

\* delay(100) at the end of loop(); limit bounds the iterations explored
loop_delay(limit) ==
    /\ pc = "delay"
    /\ iter < limit
    /\ iter' = iter + 1
    /\ pc' = "mqtt"
    /\ TimePasses(U32(LOOP_DELAY_MS))
    /\ UNCHANGED <<netVars, bleVars, last_published_status, statVars, dispVars,
                   histVars, logVars, cfgVars,
                   delivery, aggVars>>

(* ------------------------------------------------------------------ *)
(* the unit                                                             *)
(* ------------------------------------------------------------------ *)
Buttons == {"none"} \cup StatusNames

\* The presence loop: every step of loop(), with the inputs that move time
\* (setup time, blocked reconnects, a held button, scans) and the link.
\* No message arrives and the only button used is the one of the status the
\* unit already has, so the manual status stays put.
Next ==
    \/ \E connectOk \in BOOLEAN : ReconnectAttempt(connectOk, TRUE)
    \/ ClientLoop(NoMessage)
    \/ \E button \in {"none", "available"}, hold \in HoldTimes :
          checkButtons(button, TRUE, hold, TRUE)
    \/ \E devices \in ScanResults, fault \in BOOLEAN : loop_scan(devices, fault)
    \/ \E accepted \in BOOLEAN : loop_presence(accepted)
    \/ loop_delay(MaxIter)
    \/ ConnectionLost

Spec == Init /\ [][Next]_vars

\* Inbound traffic: every message of Messages may arrive in client.loop(),
\* the subscription and each publish may fail, the link may drop; no button
\* is pressed and time is moved by the code's own delays only.
InitRequests ==
    /\ audit = FALSE
    /\ \E ready \in BOOLEAN : Setup(U32(1000), "valid", ready)

NextRequests ==
    \/ \E connectOk \in BOOLEAN, subscribeOk \in BOOLEAN :
          ReconnectAttempt(connectOk, subscribeOk)
    \/ \E m \in Messages \cup {NoMessage} : ClientLoop(m)
    \/ \E accepted \in BOOLEAN : internalMqttCallback(accepted)
    \/ checkButtons("none", TRUE, U32(10), TRUE)
    \/ \E devices \in ScanResults : loop_scan(devices, FALSE)
    \/ loop_presence(TRUE)
    \/ loop_delay(MaxRequestIter)
    \/ ConnectionLost

SpecRequests == InitRequests /\ [][NextRequests]_vars

\* The beacon always in range: every scan finds the target, while held
\* buttons and blocked reconnects stretch the iterations of loop(), up to
\* nearly a whole round of the millis() counter.
BeaconHolds == {U32(10), U32(16000), <<Half - 1, Half - 2156>>}

BeaconScans == {<<TARGET_BLE_ADDRESS>>, <<OTHER_BLE_ADDRESS, TARGET_BLE_ADDRESS>>}

NextBeacon ==
    \/ \E connectOk \in BOOLEAN : ReconnectAttempt(connectOk, TRUE)
    \/ ClientLoop(NoMessage)
    \/ \E button \in {"none", "available"}, hold \in BeaconHolds :
          checkButtons(button, TRUE, hold, TRUE)
    \/ \E devices \in BeaconScans : loop_scan(devices, FALSE)
    \/ \E accepted \in BOOLEAN : loop_presence(accepted)
    \/ loop_delay(MaxIter)
    \/ ConnectionLost

SpecBeacon == InitRequests /\ [][NextBeacon]_vars

\* The manual status: every button, pressed briefly or held down for good,
\* publishes that the client rejects and a link that drops, with the beacon
\* in range; the log of the calls is kept.
StatusHold == U32(10)

StatusScans == {<<TARGET_BLE_ADDRESS>>}

StatusMessages ==
    {[topic |-> COMMAND_TOPIC, payload |-> p] : p \in CommandPayloads}

InitStatus ==
    /\ audit = TRUE
    /\ \E ready \in BOOLEAN : Setup(U32(1000), "valid", ready)

NextStatus ==
    \/ \E connectOk \in BOOLEAN : ReconnectAttempt(connectOk, TRUE)
    \/ ClientLoop(NoMessage)
    \/ \E button \in Buttons, accepted \in BOOLEAN :
          checkButtons(button, TRUE, StatusHold, accepted)
    \/ \E button \in StatusNames, accepted \in BOOLEAN :
          checkButtonsHeld(button, accepted)
    \/ \E devices \in StatusScans : loop_scan(devices, FALSE)
    \/ \E accepted \in BOOLEAN : loop_presence(accepted)
    \/ loop_delay(MaxStatusIter)
    \/ ConnectionLost

SpecStatus == InitStatus /\ [][NextStatus]_vars

\* The presence publishes with the log of the calls kept: scans that find
\* the target or nothing, a button held past the presence timeout, publishes
\* the client rejects and a link that drops.
PublishHolds == {U32(10), U32(16000)}

PublishScans == {<<>>, <<TARGET_BLE_ADDRESS>>}

NextPublish ==
    \/ \E connectOk \in BOOLEAN : ReconnectAttempt(connectOk, TRUE)
    \/ ClientLoop(NoMessage)
    \/ \E button \in {"none", "available"}, hold \in PublishHolds :
          checkButtons(button, TRUE, hold, TRUE)
    \/ \E devices \in PublishScans : loop_scan(devices, FALSE)
    \/ \E accepted \in BOOLEAN : loop_presence(accepted)
    \/ loop_delay(MaxIter)
    \/ ConnectionLost

SpecPublish == InitStatus /\ [][NextPublish]_vars

\* The manual status driven from the network as well: the messages the user
\* callback handles arrive in client.loop().  (The unit as shipped subscribes
\* to the request topic only; the callback is reached once a subscription to
\* another topic is added in reconnect_mqtt.)
NextCommands ==
    \/ \E m \in StatusMessages : ClientLoop(m)
    \/ \E accepted \in BOOLEAN : internalMqttCallback(accepted)
    \/ NextStatus

SpecCommands == InitStatus /\ [][NextCommands]_vars

\* Requests from the central system: a request for this unit's faculty
\* member or for another one arrives in client.loop() (every unit subscribes
\* to the one request topic); the time of a presentation is kept.
DispatchMessages ==
    {[topic |-> MQTT_REQUEST_TOPIC,
      payload |-> AddressedRequest(JStr(fid), JStr("s1"), JStr("need help"))] :
        fid \in AggUnits}

\* the configurable expiry of a delivered request, in milliseconds; the
\* sources set no value
request_expiry == 5000

NextDispatch ==
    \/ \E connectOk \in BOOLEAN : ReconnectAttempt(connectOk, TRUE)
    \/ \E m \in DispatchMessages \cup {NoMessage} : ClientLoop(m)
    \/ internalMqttCallback(TRUE)
    \/ checkButtons("none", TRUE, StatusHold, TRUE)
    \/ \E devices \in StatusScans : loop_scan(devices, FALSE)
    \/ loop_presence(TRUE)
    \/ loop_delay(MaxRequestIter)
    \/ ConnectionLost

SpecDispatch == InitStatus /\ [][NextDispatch]_vars

\* Routing of the inbound messages: documents that carry the members of a
\* request and of a command at once arrive on the request topic and on
\* another topic the unit is subscribed to.
CrossObject(sid, rtext, cmd, st) ==
    [valid |-> TRUE, student_id |-> sid, request_text |-> rtext,
     text |-> JAbsent, command |-> cmd, status |-> st,
     faculty_id |-> JAbsent]

RoutingPayloads ==
    {NotJson,
     CrossObject(JStr("s1"), JStr("need help"), JStr("set_status"), JStr("busy")),
     CrossObject(JStr("s1"), JStr("need help"), JStr("status_update"), JAbsent),
     CrossObject(JAbsent, JStr("need help"), JStr("set_status"), JStr("away")),
     CrossObject(JStr("s1"), JNumber, JStr("reboot"), JAbsent),
     CrossObject(JStr("s1"), JStr("need help"), JAbsent, JAbsent)}

RoutingMessages ==
    {[topic |-> t, payload |-> p] :
        t \in {MQTT_REQUEST_TOPIC, COMMAND_TOPIC}, p \in RoutingPayloads}

NextRouting ==
    \/ \E connectOk \in BOOLEAN : ReconnectAttempt(connectOk, TRUE)
    \/ \E m \in RoutingMessages \cup {NoMessage} : ClientLoop(m)
    \/ \E accepted \in BOOLEAN : internalMqttCallback(accepted)
    \/ checkButtons("none", TRUE, StatusHold, TRUE)
    \/ \E devices \in StatusScans : loop_scan(devices, FALSE)
    \/ \E accepted \in BOOLEAN : loop_presence(accepted)
    \/ loop_delay(MaxRequestIter)
    \/ ConnectionLost

SpecRouting == InitStatus /\ [][NextRouting]_vars

\* The timestamps of the manual status: every button, released at once or
\* held for nearly a whole round of the millis() counter, and a unit that is
\* switched off and on again.
TimestampHolds == {U32(10), <<Half - 1, Half - 6000>>}

NextTimestamps ==
    \/ \E connectOk \in BOOLEAN : ReconnectAttempt(connectOk, TRUE)
    \/ ClientLoop(NoMessage)
    \/ \E button \in Buttons, hold \in TimestampHolds :
          checkButtons(button, TRUE, hold, TRUE)
    \/ \E devices \in StatusScans : loop_scan(devices, FALSE)
    \/ loop_presence(TRUE)
    \/ loop_delay(MaxStatusIter)
    \/ ConnectionLost
    \/ \E ready \in BOOLEAN : Restart(U32(1000), ready)

SpecTimestamps == InitStatus /\ [][NextTimestamps]_vars

(* ------------------------------------------------------------------ *)
(* the two status topics as a function of the unit's identifiers        *)
(* ------------------------------------------------------------------ *)
\* identifiers a unit may be given: the two the sources ship with and another
UnitIds == {"prof_smith", "faculty1", "faculty2"}

StatusTopics == {MQTT_STATUS_TOPIC(id) : id \in UnitIds}

\* a unit built with any FACULTY_ID (config.h) and any faculty_id (sketch)
InitTopics ==
    /\ pc = "topics"
    /\ unit_ids \in [FACULTY_ID : UnitIds, faculty_id : UnitIds]
    /\ built_topics = [topic_buffer |-> "", statusTopic |-> ""]
    /\ delivery = NoDelivery
    /\ AggregatorStart
    /\ retained = [t \in StatusTopics |-> NoPayload]
    /\ iter = 0
    /\ wraps = 0
    /\ millis = ZERO32
    /\ fails = 0
    /\ connected = TRUE
    /\ subscribed = TRUE
    /\ inbound = NoMessage
    /\ pBLEScan = "valid"
    /\ last_seen_ms = ZERO32
    /\ lastBleScanTime = ZERO32
    /\ last_published_status = "Unknown"
    /\ currentStatus = "offline"
    /\ leds = {}
    /\ firebaseConnected = FALSE
    /\ rtdb = "unset"
    /\ status_text = ""
    /\ request_area = NoRequest
    /\ sighting = NoSighting
    /\ scanRet = "none"
    /\ present = FALSE
    /\ pubHist = <<"none", "none">>
    /\ absentPubs = 0
    /\ linkUp = FALSE
    /\ cb = NoCall
    /\ lastPub = NoPublish
    /\ unsent = 0
    /\ circuit = NoFailures
    /\ audit = FALSE

\* the presence publish of loop(): snprintf(topic_buffer, ..., FACULTY_ID)
\* and publish_message(topic_buffer, "Present" or "Unavailable", true)
PublishPresenceFor(s) ==
    /\ pc = "topics"
    /\ LET topic_buffer == MQTT_STATUS_TOPIC(unit_ids.FACULTY_ID)
       IN  /\ built_topics' = [built_topics EXCEPT !.topic_buffer = topic_buffer]
           /\ retained' = [retained EXCEPT ![topic_buffer] = PresencePayload(s)]
           /\ last_published_status' = s
    /\ UNCHANGED <<pc, iter, wraps, millis, fails, connected, subscribed,
                   inbound, bleVars, statVars, dispVars, histVars, logVars,
                   audit, unit_ids,
                   delivery, aggVars>>

\* publishStatus(): snprintf(statusTopic, ..., faculty_id) and
\* publish_message(statusTopic, the status document, true)
PublishStatusFor(status) ==
    /\ pc = "topics"
    /\ LET statusTopic == MQTT_STATUS_TOPIC(unit_ids.faculty_id)
       IN  /\ built_topics' = [built_topics EXCEPT !.statusTopic = statusTopic]
           /\ retained' = [retained EXCEPT
                              ![statusTopic] = StatusJson(status, millis)]
           /\ currentStatus' = status
           /\ leds' = LedsFor(status)
    /\ UNCHANGED <<pc, iter, wraps, millis, fails, connected, subscribed,
                   inbound, bleVars, last_published_status, firebaseConnected,
                   rtdb, dispVars, histVars, logVars, audit, unit_ids,
                   delivery, aggVars>>

NextTopics ==
    \/ \E s \in {"Present", "Unavailable"} : PublishPresenceFor(s)
    \/ \E status \in StatusNames : PublishStatusFor(status)

SpecTopics == InitTopics /\ [][NextTopics]_vars

(* ------------------------------------------------------------------ *)
(* the central system's status aggregator                               *)
(* ------------------------------------------------------------------ *)
Presences == {"Present", "Absent"}

UpdateTimes == {1, 2}

\* the status records a unit may send
StatusRecords(u) == [unit_id : {u}, presence : Presences, updated_at : UpdateTimes]

\* the slip of replacing the stored record only by a newer one
NotOlder_strict(incoming, stored) ==
    stored = NoRecord \/ incoming.updated_at > stored.updated_at

\* the incoming record's updated_at is not older than the stored one's
NotOlder(incoming, stored) ==
    stored = NoRecord \/ incoming.updated_at >= stored.updated_at

\* the transport delivers the record r of unit u
Arrive(u, r) ==
    /\ Len(arrived[u]) < MaxRecords
    /\ queue' = [queue EXCEPT ![u] = Append(@, r)]
    /\ arrived' = [arrived EXCEPT ![u] = Append(@, r)]
    /\ UNCHANGED <<store, worker, unitVars>>

\* the writer of unit u (one writer at a time per key) takes the record of u
\* that arrived first
Take(u) ==
    /\ worker[u].pc = "idle"
    /\ queue[u] # <<>>
    /\ worker' = [worker EXCEPT ![u] = [pc |-> "compare", rec |-> Head(queue[u])]]
    /\ queue' = [queue EXCEPT ![u] = Tail(@)]
    /\ UNCHANGED <<store, arrived, unitVars>>

\* it reads the entry of u and decides whether the record replaces it
Compare(u) ==
    /\ worker[u].pc = "compare"
    /\ worker' = [worker EXCEPT ![u] =
                     IF NotOlder(worker[u].rec, store[u])
                     THEN [pc |-> "replace", rec |-> worker[u].rec]
                     ELSE Idle]
    /\ UNCHANGED <<store, queue, arrived, unitVars>>

\* it replaces the entry of u
Replace(u) ==
    /\ worker[u].pc = "replace"
    /\ store' = [store EXCEPT ![u] = worker[u].rec]
    /\ worker' = [worker EXCEPT ![u] = Idle]
    /\ UNCHANGED <<queue, arrived, unitVars>>

\* the central system running, the faculty unit left out of the picture
InitAggregator ==
    /\ pc = "central"
    /\ AggregatorStart
    /\ delivery = NoDelivery
    /\ iter = 0
    /\ wraps = 0
    /\ millis = ZERO32
    /\ fails = 0
    /\ connected = FALSE
    /\ subscribed = FALSE
    /\ retained = [t \in Topics |-> NoPayload]
    /\ inbound = NoMessage
    /\ pBLEScan = "valid"
    /\ last_seen_ms = ZERO32
    /\ lastBleScanTime = ZERO32
    /\ last_published_status = "Unknown"
    /\ currentStatus = "offline"
    /\ leds = {}
    /\ firebaseConnected = FALSE
    /\ rtdb = "unset"
    /\ status_text = ""
    /\ request_area = NoRequest
    /\ sighting = NoSighting
    /\ scanRet = "none"
    /\ present = FALSE
    /\ pubHist = <<"none", "none">>
    /\ absentPubs = 0
    /\ linkUp = FALSE
    /\ cb = NoCall
    /\ lastPub = NoPublish
    /\ unsent = 0
    /\ circuit = NoFailures
    /\ audit = FALSE
    /\ unit_ids = [FACULTY_ID |-> FACULTY_ID, faculty_id |-> faculty_id]
    /\ built_topics = [topic_buffer |-> "", statusTopic |-> ""]

NextAggregator ==
    \/ \E u \in AggUnits : \E r \in StatusRecords(u) : Arrive(u, r)
    \/ \E u \in AggUnits : Take(u)
    \/ \E u \in AggUnits : Compare(u)
    \/ \E u \in AggUnits : Replace(u)

SpecAggregator == InitAggregator /\ [][NextAggregator]_vars

(* ------------------------------------------------------------------ *)
(* is_present as a function of its two inputs                           *)
(* ------------------------------------------------------------------ *)
\* counter values around zero, the timeout, the middle and the rollover
CounterValues ==
    {ZERO32, U32(1), U32(PRESENCE_TIMEOUT_MS - 1), U32(PRESENCE_TIMEOUT_MS),
     U32(PRESENCE_TIMEOUT_MS + 1), <<Half \div 2, 0>>,
     Sub32(MAX_U32, U32(PRESENCE_TIMEOUT_MS)),
     Sub32(MAX_U32, U32(PRESENCE_TIMEOUT_MS - 1)),
     Sub32(MAX_U32, U32(PRESENCE_TIMEOUT_MS - 2)),
     Sub32(MAX_U32, U32(1)), MAX_U32}

\* a scanner object with any last_seen_ms, asked at any counter value
InitIsPresent ==
    /\ pc = "call"
    /\ last_seen_ms \in CounterValues
    /\ millis \in CounterValues
    /\ present = FALSE
    /\ iter = 0
    /\ wraps = 0
    /\ fails = 0
    /\ connected = FALSE
    /\ subscribed = FALSE
    /\ retained = [t \in Topics |-> NoPayload]
    /\ inbound = NoMessage
    /\ pBLEScan = "valid"
    /\ lastBleScanTime = ZERO32
    /\ last_published_status = "Unknown"
    /\ currentStatus = "available"
    /\ leds = LedsFor("available")
    /\ firebaseConnected = FALSE
    /\ rtdb = "unset"
    /\ status_text = ""
    /\ request_area = NoRequest
    /\ sighting = NoSighting
    /\ scanRet = "none"
    /\ pubHist = <<"none", "none">>
    /\ absentPubs = 0
    /\ linkUp = FALSE
    /\ cb = NoCall
    /\ lastPub = NoPublish
    /\ unsent = 0
    /\ circuit = NoFailures
    /\ audit = FALSE
    /\ unit_ids = [FACULTY_ID |-> FACULTY_ID, faculty_id |-> faculty_id]
    /\ built_topics = [topic_buffer |-> "", statusTopic |-> ""]
    /\ delivery = NoDelivery
    /\ AggregatorStart

CallIsPresent ==
    /\ pc = "call"
    /\ pc' = "returned"
    /\ present' = is_present(last_seen_ms, millis)
    /\ UNCHANGED <<iter, wraps, millis, netVars, bleVars, last_published_status,
                   statVars, dispVars, sighting, scanRet, pubHist, absentPubs,
                   linkUp, cb, logVars, cfgVars,
                   delivery, aggVars>>

NextIsPresent == CallIsPresent

SpecIsPresent == InitIsPresent /\ [][NextIsPresent]_vars

(* ------------------------------------------------------------------ *)
(* properties                                                           *)
(* ------------------------------------------------------------------ *)
\* the target was found by a scan less than PRESENCE_TIMEOUT_MS of real time
\* before now (real time counts the wraps of the counter)
SightedWithinTimeout ==
    LET borrow == IF Lt32(millis, sighting.ms) THEN 1 ELSE 0
    IN  /\ sighting.seen
        /\ wraps - sighting.wraps - borrow = 0
        /\ Lt32(Sub32(millis, sighting.ms), U32(PRESENCE_TIMEOUT_MS))

\* C1: is_present() returns true if and only if the target was sighted less
\* than PRESENCE_TIMEOUT_MS before now; read right after the call in loop().
C1_PresentIffRecentSighting ==
    pc = "delay" => (present <=> SightedWithinTimeout)

\* C2: the presence publishes loop() makes alternate: the payload of a
\* presence publish differs from the payload of the presence publish before it.
C2_NoRepeatedPresencePublish ==
    pubHist[2] = "none" \/ pubHist[1] # pubHist[2]

C2_Witness ==
    pubHist = <<"Unavailable", "Present">>

\* C3: after a sighting, with the link up ever since, the not-present payload
\* is accepted by the broker at most once until the next sighting.
C3_AbsentPublishedOnce ==
    (sighting.seen /\ linkUp) => absentPubs <= 1

\* C4: at the end of a loop iteration with the transport connected, the
\* broker's retained presence payload is the presence the unit last computed.
C4_RetainedIsCurrentPresence ==
    (pc = "delay" /\ connected) =>
        retained[PresenceTopic] = PresencePayload(StatusString(present))

\* the request of the end-to-end scenario as the specification writes it,
\* and as the unit's protocol names the field
ScenarioRequestText ==
    [topic |-> MQTT_REQUEST_TOPIC,
     payload |-> RequestObject(JStr("s1"), JAbsent, JStr("need help"))]

ScenarioRequest ==
    [topic |-> MQTT_REQUEST_TOPIC,
     payload |-> RequestObject(JStr("s1"), JStr("need help"), JAbsent)]

ScenarioCall == [calls |-> 1, student_id |-> "s1", request_text |-> "need help"]

NonEmptyString(v) == v.t = "string" /\ v.s # ""

\* C6: show_request is called for an inbound message only if the message is
\* on the request topic and its payload is valid JSON whose student_id and
\* request text are non-empty strings.
C6_OnlyValidRequestsPresented ==
    [][(pc = "callback" /\ pc' = "buttons" /\ cb'.calls > 0)
         => /\ inbound.topic = MQTT_REQUEST_TOPIC
            /\ inbound.payload.valid
            /\ NonEmptyString(inbound.payload.student_id)
            /\ NonEmptyString(inbound.payload.request_text)]_vars

\* C7: whenever the elapsed time (current - last_seen_ms modulo 2^32) is
\* less than PRESENCE_TIMEOUT_MS, is_present() returns true, also when the
\* counter value is numerically below last_seen_ms.
C7_NoFalseAbsentAcrossRollover ==
    (pc = "returned"
       /\ Lt32(Sub32(millis, last_seen_ms), U32(PRESENCE_TIMEOUT_MS)))
      => present

C7_Witness ==
    /\ pc = "returned"
    /\ Gt32(last_seen_ms, millis)
    /\ Lt32(Sub32(millis, last_seen_ms), U32(PRESENCE_TIMEOUT_MS))
    /\ present

\* C8: after a sighting, a presence check turns Present into not-present only
\* when PRESENCE_TIMEOUT_MS or more of real time have passed since the latest
\* sighting, and a check made inside that window yields Present.
C8_AbsentOnlyAfterTimeout ==
    [][(pc = "presence" /\ pc' = "delay" /\ sighting'.seen)
         => /\ (present /\ ~present') => ~SightedWithinTimeout'
            /\ SightedWithinTimeout' => present']_vars

C8_Witness ==
    /\ pc = "delay"
    /\ sighting.seen
    /\ ~present
    /\ pubHist = <<"Present", "Unavailable">>

\* C9: before the first sighting is_present() has not returned true and
\* "Present" has not been published.
C9_UnknownBeforeFirstSighting ==
    ~sighting.seen =>
        (~present /\ pubHist[1] # "Present" /\ pubHist[2] # "Present")

\* C10: a scan step that does not find the target (nothing found, only other
\* devices, a scan that failed, no scan due) leaves last_seen_ms unchanged.
C10_MissKeepsLastSeen ==
    [][(pc = "scan" /\ pc' # "scan" /\ scanRet' # "found")
         => last_seen_ms' = last_seen_ms]_vars

C10_Witness ==
    /\ pc = "presence"
    /\ scanRet = "not found"
    /\ sighting.seen
    /\ last_seen_ms # ZERO32

\* C11: a unit whose setup_ble got no scan object neither shows nor publishes
\* the not-present value.
C11_NoAbsentWithoutScanner ==
    pBLEScan = "null" =>
        /\ status_text # "Unavailable"
        /\ pubHist[1] # "Unavailable"
        /\ pubHist[2] # "Unavailable"

\* C12: whenever the client is connected the broker holds the unit's
\* subscription to the request topic, also when client.subscribe failed.
C12_SubscribedWheneverConnected ==
    connected => subscribed

\* a step in which publish_message is called
PublishCall == lastPub'.n # lastPub.n

\* C13: a call of publish_message made while the client is disconnected hands
\* a NotConnected error to its caller, sends nothing to the broker and, in the
\* presence step, lets no time pass.
C13_NotConnectedReported ==
    [][(PublishCall /\ ~connected)
         => /\ lastPub'.ret = "NotConnected"
            /\ retained' = retained
            /\ (pc = "presence" => millis' = millis)]_vars

\* C14: during an outage a connection attempt that fails hands control back
\* to loop(), so that the scan and the presence check of the iteration are
\* made while the broker is unreachable.
C14_OutageKeepsLoopRunning ==
    [][(pc = "mqtt" /\ ~connected /\ ~connected') => pc' # "mqtt"]_vars

\* C15: loop() is never inside a step that only the environment can end: the
\* wait for the release of a button that stays down.
C15_EveryStepCompletes ==
    pc # "held"

\* C16: the record of a publish_message call that did not go out is held by
\* the unit for a later attempt.
C16_FailedWriteIsKept ==
    (lastPub.ret # "none" /\ ~lastPub.sent) => Len(retry_queue) > 0

\* C17: when the three latest publish attempts were made disconnected and
\* dropped, the next record does not go out ahead of them.
C17_BufferedRecordsReplayedFirst ==
    [][(unsent >= 3 /\ PublishCall) => ~lastPub'.sent]_vars

\* C18: no call goes to the network while failure_threshold calls in a row
\* have failed and cooldown_period has not passed since the latest failure.
C18_OpenCircuitRejectsCalls ==
    ~circuit.while_open

\* the callback handling a "status_update" command
StatusUpdateStep ==
    /\ pc = "callback"
    /\ inbound.topic # MQTT_REQUEST_TOPIC
    /\ ~DeserializationError(inbound.payload)
    /\ AsString(inbound.payload.command) = "status_update"

C20_StatusTopicsDiffer ==
    (built_topics.topic_buffer # "" /\ built_topics.statusTopic # "")
        => built_topics.topic_buffer # built_topics.statusTopic

\* C21: after setup() the manual status is one of available, busy, away,
\* whatever buttons are pressed and whatever commands arrive.
C21_ManualStatusIsValid ==
    currentStatus \in StatusNames

\* C26: a scan that was started on a valid scan object returns true, whether
\* or not the target was among the devices found.
C26_ScanReturnsInitiated ==
    (scanRet # "none" /\ pBLEScan = "valid") => scanRet = "found"

\* the payload of the latest presence message the broker accepted
AcceptedPresence ==
    IF retained[PresenceTopic] = NoPayload
    THEN "Unknown"
    ELSE retained[PresenceTopic].status

\* C27: last_published_status is the payload of the latest presence message
\* the transport accepted, "Unknown" before the first.
C27_TrackedIsAcceptedPresence ==
    last_published_status = AcceptedPresence

\* C28: at the end of every loop() iteration after the one in which the unit
\* first connected, if the client is connected the broker retains a
\* manual-status message carrying currentStatus.
C28_SetupStatusReachesBroker ==
    (pc = "delay" /\ iter >= 1 /\ connected) =>
        /\ retained[ManualTopic].kind = "json"
        /\ retained[ManualTopic].status = currentStatus

\* C29: with last_seen_ms above the counter value, is_present() returns what
\* the modular difference (current - last_seen_ms) mod 2^32 compared with
\* PRESENCE_TIMEOUT_MS gives.
C29_RolloverBranchIsModular ==
    (pc = "returned" /\ Gt32(last_seen_ms, millis)) =>
        (present <=> Lt32(Sub32(millis, last_seen_ms), U32(PRESENCE_TIMEOUT_MS)))

\* C30: with every scan finding the target, no not-present publish follows a
\* "Present" publish, however long the iterations of loop() take.
C30_NoAbsentWhileBeaconInRange ==
    pubHist # <<"Present", "Unavailable">>

C22_ExpiredRequestDropped ==
    (pc = "delay"
       /\ delivery.state = "Delivered"
       /\ ~Within(delivery.w, delivery.ms, wraps, millis, request_expiry))
      => ~request_area.shown

\* C23: the unit presents a request only if the request names the unit's own
\* faculty member as its addressee.
C23_OnlyOwnRequestsPresented ==
    [][(pc = "callback" /\ pc' = "buttons" /\ cb'.calls > 0)
         => inbound.payload.faculty_id = JStr(FACULTY_ID)]_vars

\* every record of unit u that arrived has been handled
Settled(u) == queue[u] = <<>> /\ worker[u].pc = "idle"

\* of the records of u, the k-th arrival has the greatest updated_at and is
\* the latest arrival that has it
Authoritative(u, k) ==
    \A i \in 1 .. Len(arrived[u]) :
        \/ arrived[u][i].updated_at < arrived[u][k].updated_at
        \/ (arrived[u][i].updated_at = arrived[u][k].updated_at /\ i <= k)

\* C25: once the records of a unit have been handled, in whatever order they
\* arrived and however the handling of other units' records was interleaved,
\* the record kept for the unit is the one with the greatest updated_at, the
\* later arrival among equals.
C25_LatestRecordKept ==
    \A u \in AggUnits :
        (Settled(u) /\ arrived[u] # <<>>) =>
            \E k \in 1 .. Len(arrived[u]) :
                Authoritative(u, k) /\ store[u] = arrived[u][k]

C25_Witness ==
    /\ Settled(FACULTY_ID)
    /\ Len(arrived[FACULTY_ID]) = 2
    /\ arrived[FACULTY_ID][1].updated_at > arrived[FACULTY_ID][2].updated_at
    /\ store[FACULTY_ID] = arrived[FACULTY_ID][1]
    /\ worker[OTHER_FACULTY_ID].pc = "replace"

\* C35: at most one of the three status LEDs is lit, and a lit LED is the one
\* of currentStatus.
C35_OneLedOfCurrentStatus ==
    /\ Cardinality(leds) <= 1
    /\ \A l \in leds : l = currentStatus

C35_Witness ==
    /\ pc = "scan"
    /\ currentStatus = "away"
    /\ leds = {"away"}
    /\ lastPub.topic = ManualTopic

\* C36: whenever is_present() takes its rollover branch, the sum
\* (0xFFFFFFFF - last_seen_ms) + current_time fits 32 bits.
C36_RolloverSumFits ==
    (pc = "returned" /\ Gt32(last_seen_ms, millis)) =>
        RolloverSum(last_seen_ms, millis).carry = 0

C36_Witness ==
    /\ pc = "returned"
    /\ last_seen_ms = MAX_U32
    /\ millis = Sub32(MAX_U32, U32(1))
    /\ RolloverSum(last_seen_ms, millis).sum = Sub32(MAX_U32, U32(1))

\* C31: one identifier names the unit in the presence topic, in the
\* manual-status topic and in the backend path of its status.
C31_OneUnitIdentity ==
    \E id \in UnitIds :
        /\ built_topics.topic_buffer \in {"", MQTT_STATUS_TOPIC(id)}
        /\ built_topics.statusTopic \in {"", MQTT_STATUS_TOPIC(id)}
        /\ RtdbPath(unit_ids.faculty_id) = RtdbPath(id)

\* C33: the handling of a message of the request topic leaves the manual
\* status, its LEDs, its backend record and the publishes alone, and the
\* handling of a message of any other topic presents no request.
C33_RoutingIsExclusive ==
    [][(pc = "callback" /\ pc' = "buttons")
         => /\ inbound.topic = MQTT_REQUEST_TOPIC
                 => UNCHANGED <<currentStatus, leds, rtdb, retained, lastPub,
                                unsent>>
            /\ inbound.topic # MQTT_REQUEST_TOPIC
                 => cb'.calls = 0 /\ UNCHANGED request_area]_vars

\* a request was presented from the request topic and a later message of
\* another topic has set the status, with the request still on display
C33_Witness ==
    /\ pc = "buttons"
    /\ request_area.shown
    /\ request_area.student_id = "s1"
    /\ cb.calls = 0
    /\ currentStatus = "busy"
    /\ lastPub.topic = ManualTopic

\* the messages the unit rejects
Rejected(m) ==
    \/ ~m.payload.valid
    \/ /\ m.topic = MQTT_REQUEST_TOPIC
       /\ \/ m.payload.student_id.t # "string"
          \/ m.payload.request_text.t # "string"
    \/ /\ m.topic # MQTT_REQUEST_TOPIC
       /\ m.payload.valid
       /\ ~(/\ m.payload.command.t = "string"
            /\ m.payload.command.s
                 \in {"status_update", "display_update", "set_status"})

\* C34: the handling of a rejected message changes nothing of the unit,
\* publishes nothing, and loop() goes on to the buttons.
C34_RejectedChangesNothing ==
    [][(pc = "callback" /\ pc' # pc /\ Rejected(inbound))
         => /\ pc' = "buttons"
            /\ UNCHANGED <<currentStatus, last_published_status, last_seen_ms,
                           leds, rtdb, request_area, retained, lastPub,
                           unsent>>]_vars

\* a message has been rejected with a request on display: the callback ran
\* after the presentation, presented nothing and published nothing
C34_Witness ==
    /\ pc = "buttons"
    /\ iter = 1
    /\ request_area.shown
    /\ cb.calls = 0
    /\ currentStatus = "available"
    /\ lastPub.topic = PresenceTopic

\* C32: a manual-status message that replaces the one the broker retains
\* carries a timestamp that is not smaller than the one it replaces.
C32_TimestampsNonDecreasing ==
    [][(/\ retained[ManualTopic].kind = "json"
        /\ retained'[ManualTopic].kind = "json"
        /\ retained'[ManualTopic] # retained[ManualTopic])
         => Ge32(retained'[ManualTopic].timestamp,
                 retained[ManualTopic].timestamp)]_vars

====
